---- MODULE Spec2Model ----
(***************************************************************************)
(* A model of lrrfeed.py: LRRFeedParser, the per-feed update scheduler.    *)
(*                                                                         *)
(* The program runs on one asyncio event loop.  Every action below is one  *)
(* uninterrupted run of a coroutine between two suspension points (await   *)
(* asyncio.sleep, await of a held lock, await get_latest, await of the     *)
(* client's announce/privmsg), or one whole synchronous call (start,       *)
(* stop).  Time is counted in units of 0.1 s, the margin added to the nap. *)
(***************************************************************************)
EXTENDS Integers, Sequences, FiniteSets, TLC

(* ----------------------------- bounds ---------------------------------- *)
\* Number of coroutines of the embedding bot that call update()/announce().
NumCallers == 1
\* Number of start() calls that create feed records.
MaxStarts == 2
\* Last value of the loop clock that is explored.
MaxTime == 5
\* Number of feeds whose polling task is run and whose id callers pass in one
\* behaviour; the other feeds are started and stopped, their tasks wait.
ActiveFeeds == 1

(* ------------------------ program constants ---------------------------- *)
\* The delay given to LRRFeedParser(client, delay=...), here 0.2 s.
delay == 2
\* The 0.1 s that auto_update adds to its nap.
Eps == 1

RSS_FEEDS ==
    [video   |-> [title |-> "LRR Video Feed",
                  url   |-> "http://feeds.feedburner.com/Loadingreadyrun"],
     podcast |-> [title |-> "LRRcast Feed",
                  url   |-> "http://loadingreadyrun.com/lrrcasts/feed/all"]]

Feeds == DOMAIN RSS_FEEDS
\* Feed ids a caller may pass: the catalog and one id that is not in it.
FeedIds == Feeds \cup {"unknown"}

(* --------------------------- feed entries ------------------------------ *)
\* Python's None, as the value of "latest" and of a failed get_latest.
None == [url |-> "None", title |-> "None", time |-> 0]

\* The items a parsed feed may carry first (feedparser entries): guid,
\* title and published time.  The second is the first with its title and
\* time edited, the third is another item.
Items ==
    { [guid |-> "v1", title |-> "Ep1",  published |-> 0],
      [guid |-> "v1", title |-> "Ep1b", published |-> 5],
      [guid |-> "v2", title |-> "Ep2",  published |-> 0] }

\* What the HTTP request and the parser hand to get_latest: a transport
\* error, or the list of the feed's items (empty, or newest first).
Responses ==
    {[err |-> TRUE, entries |-> << >>], [err |-> FALSE, entries |-> << >>]}
    \cup {[err |-> FALSE, entries |-> <<i>>] : i \in Items}
    \cup {[err |-> FALSE, entries |-> <<i, j>>] :
              i \in {x \in Items : x.guid = "v2"}, j \in {x \in Items : x.title = "Ep1b"}}

\* get_latest: None on a client error or an empty feed, otherwise the entry
\* built from the first item.
get_latest(resp) ==
    IF resp.err THEN None
    ELSE IF Len(resp.entries) = 0 THEN None
    ELSE LET latest == resp.entries[1]
         IN [url |-> latest.guid, title |-> latest.title, time |-> latest.published]

Targets == {"nick"}
NoTarget == "None"
NoMsg == [kind |-> "none", target |-> NoTarget, feed_title |-> "", title |-> "",
          url |-> "", time |-> 0]

\* entry_msg with the test of target inverted.
entry_msg_inverted(feed, entry, target) ==
    [kind       |-> IF target # NoTarget THEN "announce" ELSE "privmsg",
     target     |-> target,
     feed_title |-> RSS_FEEDS[feed].title,
     title      |-> entry.title,
     url        |-> entry.url,
     time       |-> entry.time]

\* The text announce() formats, kept as its four fields, and the client
\* call that carries it.
entry_msg(feed, entry, target) ==
    [kind       |-> IF target # NoTarget THEN "privmsg" ELSE "announce",
     target     |-> target,
     feed_title |-> RSS_FEEDS[feed].title,
     title      |-> entry.title,
     url        |-> entry.url,
     time       |-> entry.time]

(* ---------------------------- processes -------------------------------- *)
\* The polling task of a feed, and the callers of update()/announce().
Auto(f) == [k |-> "auto", f |-> f, i |-> 0]
Call(i) == [k |-> "call", f |-> "", i |-> i]
Tasks   == {Auto(f) : f \in Feeds}
Callers == {Call(i) : i \in 1..NumCallers}
Procs   == Tasks \cup Callers
NoProc  == [k |-> "none", f |-> "", i |-> 0]

VARIABLES
    updater,  \* feed -> [in, lock, last, latest]: the dict LRRFeedParser.updater
    proc,     \* process -> where its coroutine is suspended, and its locals
    waitq,    \* feed -> the coroutines waiting for a lock of the feed, in order of arrival
    old,      \* feed -> the cancelled polling task that has not run since
    starts,   \* number of start() calls that created records (names the locks)
    now,      \* loop.time()
    sched,    \* the feeds whose coroutines are run in this behaviour
    cyc,      \* history: feed -> ticks since its latest refresh cycle completed
              \*   (delay: that long or longer, or never), and whether it failed
    seen,     \* history: feed -> a cycle succeeded since the last start()
    silent,   \* history: feed -> url last stored as new by a cycle with announce=False
    ev        \* history: what the step that led to this state did

vars == <<updater, proc, waitq, old, starts, now, sched, cyc, seen, silent, ev>>

\* A coroutine that is not running: an idle caller, a feed without task.
Rest == [pc |-> "none", op |-> "none", feed |-> "", ann |-> FALSE, lock |-> 0,
         wake |-> 0, msg |-> NoMsg]

\* An untracked feed: no key in updater.
NoRec == [in |-> FALSE, lock |-> 0, last |-> 0, latest |-> None]

NoOld == [st |-> "none", lock |-> 0]

\* No refresh cycle of the feed completed less than delay ago.
Long == [age |-> delay, failed |-> FALSE]
\* A refresh cycle of the feed completes in this step.
Ended(failed) == [age |-> 0, failed |-> failed]

\* kind: "cycle" (get_latest returned and update() went on with its result
\* new, having found old as latest), "KeyError", "cancelled" (at the await
\* at), "unknown", "notified", "announce" and "mute" (announce() called with
\* target at, with and without a message), "start" and "stop" (at: whether
\* the feeds were "tracked" or "untracked"); started: the step called
\* get_latest; first: no cycle had succeeded since start().
NoEv == [kind |-> "none", p |-> NoProc, feed |-> "", old |-> None, new |-> None,
         ann |-> FALSE, at |-> "", started |-> FALSE, first |-> FALSE]

Init ==
    /\ updater = [f \in Feeds |-> NoRec]
    /\ proc = [p \in Procs |-> Rest]
    /\ waitq = [f \in Feeds |-> << >>]
    /\ old = [f \in Feeds |-> NoOld]
    /\ starts = 0
    /\ now = delay
    /\ sched \in {S \in SUBSET Feeds :
                     \/ Cardinality(S) = ActiveFeeds
                     \/ S = Feeds /\ Cardinality(S) < ActiveFeeds}
    /\ cyc = [f \in Feeds |-> Long]
    /\ seen = [f \in Feeds |-> FALSE]
    /\ silent = [f \in Feeds |-> "None"]
    /\ ev = NoEv

(* ------------------------------ locks ---------------------------------- *)
\* Holds without the test of the position of p.
Holds_waiting(pr, p, f, n) ==
    /\ pr[p].op = "update"
    /\ pr[p].feed = f
    /\ pr[p].lock = n

\* The asyncio.Lock created for feed f by the n-th start() is named <<f, n>>.
\* It is held by the coroutine that is inside "async with" on it.
Holds(pr, p, f, n) ==
    /\ pr[p].op = "update"
    /\ pr[p].pc \in {"fetch", "notify"}
    /\ pr[p].feed = f
    /\ pr[p].lock = n

\* A cancelled polling task keeps the lock until it runs and unwinds.
OldHolds(f, n) == old[f].st \in {"fetch", "notify"} /\ old[f].lock = n

Waits(pr, q, f, n) ==
    {k \in 1..Len(q[f]) : pr[q[f][k]].lock = n}

\* Lock.acquire returns at once only if the lock is neither held nor awaited.
LockIdle(pr, q, f, n) ==
    /\ \A p \in Procs : ~Holds(pr, p, f, n)
    /\ ~OldHolds(f, n)
    /\ Waits(pr, q, f, n) = {}

Without(q, f, p) == [q EXCEPT ![f] = SelectSeq(@, LAMBDA x : x # p)]

(* ------------------------- coroutine bodies ---------------------------- *)
Tracked(upd, f) == f \in Feeds /\ upd[f].in

\* update(feed, announce=a) run by p up to its first suspension: the
\* membership test, then "async with lock" and the call of get_latest.  pr
\* is proc with p at rest, upd the dict and q the queue as p finds them.
update(upd, pr, q, p, f, a) ==
    IF ~Tracked(upd, f)
    THEN [rec |-> Rest, q |-> q, started |-> FALSE, known |-> FALSE]
    ELSE LET n  == upd[f].lock
             me == [Rest EXCEPT !.op = "update", !.feed = f, !.ann = a, !.lock = n]
         IN IF LockIdle(pr, q, f, n)
            THEN [rec |-> [me EXCEPT !.pc = "fetch"], q |-> q,
                  started |-> TRUE, known |-> TRUE]
            ELSE [rec |-> [me EXCEPT !.pc = "lock"], q |-> [q EXCEPT ![f] = Append(@, p)],
                  started |-> FALSE, known |-> TRUE]

\* One pass of the while loop of auto_update at time t, up to its await.
auto_update(upd, pr, q, f, t) ==
    LET nxt == upd[f].last + delay
    IN IF nxt > t
       THEN LET naptime == Eps + (nxt - t)
            IN [rec |-> [Rest EXCEPT !.pc = "sleep", !.op = "auto", !.feed = f,
                                     !.wake = t + naptime],
                q |-> q, started |-> FALSE, known |-> TRUE]
       ELSE update(upd, pr, q, Auto(f), f, TRUE)

\* Return ending the polling task like a caller.
Return_once(upd, pr, q, p, t) ==
    [rec |-> Rest, q |-> q, started |-> FALSE, known |-> TRUE]

\* What p does when its update() has returned: a caller is done, the
\* polling task goes round its loop.
Return(upd, pr, q, p, t) ==
    IF p \in Tasks
    THEN auto_update(upd, pr, q, p.f, t)
    ELSE [rec |-> Rest, q |-> q, started |-> FALSE, known |-> TRUE]

\* announce without the test for a cached entry.
announce_blank(upd, f, target) ==
    IF ~Tracked(upd, f) THEN NoMsg ELSE entry_msg(f, upd[f].latest, target)

\* announce(feed, target): the message it hands to the client, NoMsg if none.
announce(upd, f, target) ==
    IF ~Tracked(upd, f) THEN NoMsg
    ELSE LET entry == upd[f].latest
         IN IF entry = None THEN NoMsg ELSE entry_msg(f, entry, target)

(* ------------------------------ actions -------------------------------- *)
\* Untracked taking every feed for untracked.
Untracked_all == Feeds

\* The feeds start() finds missing from self.updater.
Untracked == {f \in Feeds : ~updater[f].in}

\* start(): a record and a polling task for every feed that has none.
start ==
    /\ Untracked # {} => starts < MaxStarts
    /\ LET n == starts + 1
       IN /\ updater' = [f \in Feeds |->
                            IF f \in Untracked
                            THEN [in |-> TRUE, lock |-> n, last |-> 0, latest |-> None]
                            ELSE updater[f]]
          /\ proc' = [p \in Procs |->
                         IF p \in Tasks /\ p.f \in Untracked
                         THEN [Rest EXCEPT !.pc = "created", !.op = "auto", !.feed = p.f]
                         ELSE proc[p]]
          /\ starts' = IF Untracked # {} THEN n ELSE starts
    /\ seen' = [f \in Feeds |-> IF f \in Untracked THEN FALSE ELSE seen[f]]
    /\ ev' = [NoEv EXCEPT !.kind = "start",
                          !.at = IF Untracked = {} THEN "tracked" ELSE "untracked"]
    /\ UNCHANGED <<waitq, old, now, sched, cyc, silent>>

\* stop(): cancel the task of every tracked feed and delete its record.  It
\* waits for nothing.  A task cancelled before it ever ran has nothing to
\* unwind; any other stays pending with CancelledError until the loop runs it.
stop ==
    /\ updater' = [f \in Feeds |-> NoRec]
    /\ proc' = [p \in Procs |->
                   IF p \in Tasks /\ updater[p.f].in THEN Rest ELSE proc[p]]
    /\ old' = [f \in Feeds |->
                  LET task == proc[Auto(f)]
                  IN IF updater[f].in /\ task.pc # "created"
                     THEN [st   |-> task.pc,
                           lock |-> IF task.pc \in {"fetch", "notify"}
                                    THEN task.lock ELSE 0]
                     ELSE old[f]]
    /\ waitq' = [f \in Feeds |-> SelectSeq(waitq[f], LAMBDA p : p \notin Tasks)]
    /\ ev' = [NoEv EXCEPT !.kind = "stop",
                          !.at = IF Untracked = Feeds THEN "untracked" ELSE "tracked"]
    /\ UNCHANGED <<starts, now, sched, cyc, seen, silent>>

\* The cancelled task of f runs: CancelledError is raised at its await,
\* leaves "async with" (releasing the lock if it held it) and ends the task.
cancelled(f) ==
    /\ old[f].st # "none"
    /\ old' = [old EXCEPT ![f] = NoOld]
    /\ ev' = [NoEv EXCEPT !.kind = "cancelled", !.p = Auto(f), !.feed = f,
                          !.at = old[f].st]
    /\ UNCHANGED <<updater, proc, waitq, starts, now, sched, cyc, seen, silent>>

\* p resumes its loop or returns, after the step that set upd; e tells
\* what that step did.
Resume(upd, p, e) ==
    LET r == Return(upd, [proc EXCEPT ![p] = Rest], waitq, p, now)
    IN /\ proc' = [proc EXCEPT ![p] = r.rec]
       /\ waitq' = r.q
       /\ ev' = IF r.started THEN [e EXCEPT !.p = p, !.started = TRUE] ELSE e

\* The new polling task of f runs for the first time.  The loop runs its
\* callbacks in order, so every task cancelled earlier has run before.
auto_update_begin(f) ==
    /\ proc[Auto(f)].pc = "created"
    /\ f \in sched
    /\ \A g \in Feeds : old[g].st = "none"
    /\ Resume(updater, Auto(f), [NoEv EXCEPT !.feed = f])
    /\ UNCHANGED <<updater, old, starts, now, sched, cyc, seen, silent>>

\* asyncio.sleep(naptime) of the polling task of f is over.
auto_update_wake(f) ==
    /\ proc[Auto(f)].pc = "sleep"
    /\ now >= proc[Auto(f)].wake
    /\ Resume(updater, Auto(f), [NoEv EXCEPT !.feed = f])
    /\ UNCHANGED <<updater, old, starts, now, sched, cyc, seen, silent>>

\* p, first in line for a lock that is free, gets it and calls get_latest.
lock_acquired(p) ==
    /\ proc[p].pc = "lock"
    /\ LET f == proc[p].feed
           n == proc[p].lock
       IN /\ \A x \in Procs : ~Holds(proc, x, f, n)
          /\ ~OldHolds(f, n)
          /\ \E k \in Waits(proc, waitq, f, n) :
                 /\ waitq[f][k] = p
                 /\ \A j \in Waits(proc, waitq, f, n) : k <= j
          /\ ev' = [NoEv EXCEPT !.p = p, !.feed = f, !.started = TRUE]
    /\ proc' = [proc EXCEPT ![p].pc = "fetch"]
    /\ waitq' = Without(waitq, proc[p].feed, p)
    /\ UNCHANGED <<updater, old, starts, now, sched, cyc, seen, silent>>

\* A caller calls update(f, announce=a).
call_update(i, f, a) ==
    /\ proc[Call(i)].pc = "none"
    /\ LET r == update(updater, proc, waitq, Call(i), f, a)
       IN /\ proc' = [proc EXCEPT ![Call(i)] = r.rec]
          /\ waitq' = r.q
          /\ ev' = IF r.known /\ ~r.started THEN NoEv
                   ELSE [NoEv EXCEPT !.kind = IF r.known THEN "none" ELSE "unknown",
                                     !.p = Call(i), !.feed = f, !.started = r.started]
    /\ UNCHANGED <<updater, old, starts, now, sched, cyc, seen, silent>>

\* A caller calls announce(f, target=t).
call_announce(i, f, t) ==
    /\ proc[Call(i)].pc = "none"
    /\ LET msg == announce(updater, f, t)
       IN /\ proc' = [proc EXCEPT ![Call(i)] =
                         IF msg = NoMsg THEN Rest
                         ELSE [Rest EXCEPT !.pc = "notify", !.op = "announce",
                                           !.feed = f, !.msg = msg]]
          /\ ev' = [NoEv EXCEPT !.kind = IF msg = NoMsg THEN "mute" ELSE "announce",
                                !.p = Call(i), !.feed = f, !.at = t]
    /\ UNCHANGED <<updater, waitq, old, starts, now, sched, cyc, seen, silent>>

\* no_entry without the test: a failed fetch is treated as an entry.
no_entry_never(new_entry) == FALSE

\* "if not new_entry": the fetch failed.
no_entry(new_entry) == new_entry = None

\* first_entry without the test: the first entry is compared like any other.
first_entry_never(old_entry) == FALSE

\* "if not old_entry": nothing was stored before.
first_entry(old_entry) == old_entry = None

\* new_url comparing the whole entries.
new_url_any(old_entry, new_entry) == old_entry # new_entry

\* old_entry["url"] != new_entry["url"]
new_url(old_entry, new_entry) == old_entry.url # new_entry.url

\* reset_timer setting the last of every feed.
reset_timer_all(upd, f, t) == [g \in Feeds |-> [upd[g] EXCEPT !.last = t]]

\* reset_timer without the assignment.
reset_timer_skip(upd, f, t) == upd

\* "reset the timer": self.updater[feed]["last"] = self.loop.time()
reset_timer(upd, f, t) == [upd EXCEPT ![f].last = t]

\* remember keeping the cached entry when the fetched one has its url.
remember_new(upd, f, new_entry) ==
    IF upd[f].latest # None /\ upd[f].latest.url = new_entry.url
    THEN upd ELSE [upd EXCEPT ![f].latest = new_entry]

\* "remember latest entry": self.updater[feed]["latest"] = new_entry
remember(upd, f, new_entry) == [upd EXCEPT ![f].latest = new_entry]

\* get_latest returns to p: the rest of the body of "async with" in update.
fetch_done(p, resp) ==
    /\ proc[p].pc = "fetch"
    /\ LET f         == proc[p].feed
           new_entry == get_latest(resp)
       IN IF ~updater[f].in
          THEN \* self.updater[feed] raises KeyError, which leaves update()
               /\ proc' = [proc EXCEPT ![p] = Rest]
               /\ ev' = [NoEv EXCEPT !.kind = "KeyError", !.p = p, !.feed = f]
               /\ UNCHANGED <<updater, waitq, cyc, seen, silent>>
          ELSE LET timed     == reset_timer(updater, f, now)
                   old_entry == timed[f].latest
                   stored    == remember(timed, f, new_entry)
                   e         == [NoEv EXCEPT !.kind = "cycle", !.p = p, !.feed = f,
                                             !.old = old_entry, !.new = new_entry,
                                             !.ann = proc[p].ann,
                                             !.first = ~seen[f] /\ new_entry # None]
               IN IF no_entry(new_entry)
                  THEN /\ updater' = timed
                       /\ cyc' = [cyc EXCEPT ![f] = Ended(TRUE)]
                       /\ Resume(timed, p, e)
                       /\ UNCHANGED <<seen, silent>>
                  ELSE /\ updater' = stored
                       /\ seen' = [seen EXCEPT ![f] = @ \/ new_entry # None]
                       /\ IF first_entry(old_entry)
                          THEN /\ cyc' = [cyc EXCEPT ![f] = Ended(FALSE)]
                               /\ Resume(stored, p, e)
                               /\ UNCHANGED silent
                          ELSE IF new_url(old_entry, new_entry)
                          THEN IF proc[p].ann
                               THEN LET msg == announce(stored, f, NoTarget)
                                    IN IF msg = NoMsg
                                       THEN /\ cyc' = [cyc EXCEPT ![f] = Ended(FALSE)]
                                            /\ Resume(stored, p, e)
                                            /\ UNCHANGED silent
                                       ELSE /\ proc' = [proc EXCEPT ![p].pc = "notify",
                                                                    ![p].msg = msg]
                                            /\ ev' = e
                                            /\ UNCHANGED <<waitq, cyc, silent>>
                               ELSE /\ cyc' = [cyc EXCEPT ![f] = Ended(FALSE)]
                                    /\ silent' = [silent EXCEPT ![f] = new_entry.url]
                                    /\ Resume(stored, p, e)
                          ELSE /\ cyc' = [cyc EXCEPT ![f] = Ended(FALSE)]
                               /\ Resume(stored, p, e)
                               /\ UNCHANGED silent
    /\ UNCHANGED <<old, starts, now, sched>>

\* The client's announce or privmsg returns to p.
notify_done(p) ==
    /\ proc[p].pc = "notify"
    /\ IF proc[p].op = "update"
       THEN /\ cyc' = [cyc EXCEPT ![proc[p].feed] = Ended(FALSE)]
            /\ Resume(updater, p, [NoEv EXCEPT !.kind = "notified", !.p = p,
                                               !.feed = proc[p].feed])
       ELSE /\ proc' = [proc EXCEPT ![p] = Rest]
            /\ ev' = NoEv
            /\ UNCHANGED <<waitq, cyc>>
    /\ UNCHANGED <<updater, old, starts, now, sched, seen, silent>>

\* The loop clock advances.
Tick ==
    /\ now < MaxTime
    /\ now' = now + 1
    /\ cyc' = [f \in Feeds |->
                  IF cyc[f].age + 1 >= delay THEN Long
                  ELSE [cyc[f] EXCEPT !.age = @ + 1]]
    /\ ev' = NoEv
    /\ UNCHANGED <<updater, proc, waitq, old, starts, sched, seen, silent>>

Next ==
    \/ start
    \/ stop
    \/ Tick
    \/ \E f \in Feeds : cancelled(f)
    \/ \E f \in Feeds : auto_update_begin(f)
    \/ \E f \in Feeds : auto_update_wake(f)
    \/ \E p \in Procs : lock_acquired(p)
    \/ \E i \in 1..NumCallers, f \in FeedIds \ (Feeds \ sched), a \in BOOLEAN :
           call_update(i, f, a)
    \/ \E i \in 1..NumCallers, f \in FeedIds \ (Feeds \ sched),
          t \in Targets \cup {NoTarget} : call_announce(i, f, t)
    \/ \E p \in Procs, resp \in Responses : fetch_done(p, resp)
    \/ \E p \in Procs : notify_done(p)

Spec == Init /\ [][Next]_vars

\* The event loop runs every callback that is ready, its clock advances,
\* and every fetch and every delivery that was started returns.
Fairness ==
    /\ WF_vars(Tick)
    /\ \A f \in Feeds : /\ WF_vars(cancelled(f))
                        /\ WF_vars(auto_update_begin(f))
                        /\ WF_vars(auto_update_wake(f))
    /\ \A p \in Procs : /\ WF_vars(lock_acquired(p))
                        /\ WF_vars(\E resp \in Responses : fetch_done(p, resp))
                        /\ WF_vars(notify_done(p))

\* The environment of the liveness checks: callers only call update() with
\* announce for an active feed, and a feed answers with an error or with
\* one of two entries of different urls.
LiveResponses ==
    {resp \in Responses :
        \/ resp.err
        \/ Len(resp.entries) = 1 /\ resp.entries[1].title \in {"Ep1", "Ep2"}}

LiveNext ==
    \/ start
    \/ stop
    \/ Tick
    \/ \E f \in Feeds : cancelled(f)
    \/ \E f \in Feeds : auto_update_begin(f)
    \/ \E f \in Feeds : auto_update_wake(f)
    \/ \E p \in Procs : lock_acquired(p)
    \/ \E i \in 1..NumCallers, f \in sched : call_update(i, f, TRUE)
    \/ \E p \in Procs, resp \in LiveResponses : fetch_done(p, resp)
    \/ \E p \in Procs : notify_done(p)

LiveSpec == Init /\ [][LiveNext]_vars /\ Fairness

\* Both feeds of RSS_FEEDS polled side by side, with callers of update()
\* and announce() for the video feed.
PairInit ==
    /\ updater = [f \in Feeds |-> NoRec]
    /\ proc = [p \in Procs |-> Rest]
    /\ waitq = [f \in Feeds |-> << >>]
    /\ old = [f \in Feeds |-> NoOld]
    /\ starts = 0
    /\ now = delay
    /\ sched = Feeds
    /\ cyc = [f \in Feeds |-> Long]
    /\ seen = [f \in Feeds |-> FALSE]
    /\ silent = [f \in Feeds |-> "None"]
    /\ ev = NoEv

PairNext ==
    \/ start
    \/ stop
    \/ Tick
    \/ \E f \in Feeds : cancelled(f)
    \/ \E f \in Feeds : auto_update_begin(f)
    \/ \E f \in Feeds : auto_update_wake(f)
    \/ \E p \in Procs : lock_acquired(p)
    \/ \E i \in 1..NumCallers : call_update(i, "video", TRUE)
    \/ \E i \in 1..NumCallers : call_announce(i, "video", NoTarget)
    \/ \E p \in Procs, resp \in LiveResponses : fetch_done(p, resp)
    \/ \E p \in Procs : notify_done(p)

\* The loop runs every ready callback and its clock advances; the fetches
\* and deliveries of the podcast feed return, those of the video feed may
\* fail every time or never return.
PairFairness ==
    /\ WF_vars(Tick)
    /\ \A f \in Feeds : /\ WF_vars(cancelled(f))
                        /\ WF_vars(auto_update_begin(f))
                        /\ WF_vars(auto_update_wake(f))
                        /\ WF_vars(lock_acquired(Auto(f)))
    /\ WF_vars(\E resp \in LiveResponses : fetch_done(Auto("podcast"), resp))
    /\ WF_vars(notify_done(Auto("podcast")))

PairSpec == PairInit /\ [][PairNext]_vars /\ PairFairness

(* ------------------------------ claims --------------------------------- *)
InFlight(f) == {p \in Procs : proc[p].pc = "fetch" /\ proc[p].feed = f}

\* C1: in every reachable state at most one get_latest call issued by
\* update is in flight for each feed.
C1_OneFetchPerFeed == \A f \in Feeds : Cardinality(InFlight(f)) <= 1

\* The step that led here was the part of update() that follows a fetch.
Cycle == ev.kind = "cycle"
Succeeded == Cycle /\ ev.new # None
NewUrl == Succeeded /\ ev.old # None /\ ev.old.url # ev.new.url
SameUrl == Succeeded /\ ev.old # None /\ ev.old.url = ev.new.url
Notifying == proc[ev.p].pc = "notify"

\* C2: the first cycle that succeeds after a start() stores the entry it
\* fetched and sends no notification.
C2_FirstCycleSilent ==
    Cycle /\ ev.first =>
        /\ updater[ev.feed].latest = ev.new
        /\ ~Notifying

\* C2 witness: after a stop() and a second start(), a manual update with
\* announce=True was the first cycle to succeed.
C2_Witness == Cycle /\ ev.first /\ starts = 2 /\ ev.p \in Callers /\ ev.ann

\* The parts of C3 on the cycle that fetches a new url: with announce=True it
\* sends one broadcast, with announce=False it stores the entry and sends
\* nothing; and a cycle that has notified sends nothing more.
C3_Cycle ==
    /\ NewUrl /\ ev.ann =>
           /\ Notifying
           /\ proc[ev.p].msg.kind = "announce"
           /\ proc[ev.p].msg.url = ev.new.url
    /\ NewUrl /\ ~ev.ann =>
           /\ updater[ev.feed].latest = ev.new
           /\ ~Notifying
    /\ ev.kind = "notified" => ~Notifying

\* C3 as claimed: a cycle that fetches a url differing from the cached one
\* sends exactly one broadcast if announce=True; if announce=False it stores
\* the entry silently, and no later cycle that fetches that url notifies.
C3_NeverNotifiedLater ==
    /\ C3_Cycle
    /\ Succeeded /\ Notifying => ev.new.url # silent[ev.feed]

\* C3 as amended: ... and no later cycle that fetches that url while it is
\* still the cached url notifies.
C3_NotNotifiedWhileCached ==
    /\ C3_Cycle
    /\ SameUrl /\ ev.new.url = silent[ev.feed] => ~Notifying

\* C3 witness: a cycle with announce=True has fetched a new url and is
\* sending its broadcast, on a feed where an earlier cycle stored one silently.
C3_Witness == NewUrl /\ ev.ann /\ Notifying /\ silent[ev.feed] # "None"

\* C4: a cycle that fetches the cached url sends no notification, whatever
\* the title and the time of the fetched entry.
C4_SameUrlSilent == SameUrl => ~Notifying

\* C4 witness: a cycle with announce=True fetched the cached url with another
\* title and another time.
C4_Witness ==
    SameUrl /\ ev.ann /\ ev.old.title # ev.new.title /\ ev.old.time # ev.new.time

\* C5: a cycle whose fetch failed leaves latest as it was and sends no
\* notification; so does a cycle that finds its feed untracked when the
\* fetch returns, whatever the fetch returned.
C5_FailedKeepsLatest ==
    /\ Cycle /\ ev.new = None =>
           /\ updater[ev.feed].latest = ev.old
           /\ ~Notifying
    /\ ev.kind = "KeyError" =>
           /\ updater[ev.feed] = NoRec
           /\ ~Notifying

\* C5 witness: a fetch failed on a feed that had an entry.
C5_Witness == Cycle /\ ev.new = None /\ ev.old # None

\* C6: once stop() has returned, no cancelled polling task is still inside
\* a fetch or holds the lock of its feed.
C6_StopDrains == \A f \in Feeds : old[f].st \notin {"fetch", "notify"}

\* C7: a polling task cancelled inside a refresh cycle finishes the cycle;
\* cancellation ends the task only at the sleep of its loop.
C7_CancelledAtSleepOnly == ev.kind = "cancelled" => ev.at = "sleep"

\* The step that led here made the polling task call get_latest.
AutoFetch == ev.started /\ ev.p \in Tasks

\* C8: the polling task starts a fetch only when a full delay has passed
\* since the latest refresh cycle of its feed completed.
C8_AutoFetchAfterDelay == AutoFetch => cyc[ev.feed].age >= delay

\* C9: after a cycle whose fetch failed, the polling task starts its next
\* fetch no sooner than a full delay later.
C9_RetryAfterDelay ==
    AutoFetch => ~(cyc[ev.feed].failed /\ cyc[ev.feed].age < delay)

\* C10: update() of an unknown or untracked feed does nothing and returns,
\* and no update() raises because its feed is or becomes untracked.
C10_UpdateNeverRaises ==
    /\ ev.kind = "unknown" => ~ev.started /\ proc[ev.p].pc = "none"
    /\ ev.kind # "KeyError"

\* C11: start() leaves a feed that is already tracked as it is (same record,
\* same lock, same last and latest, same polling task, no second task) and
\* gives an untracked feed a new record with a new lock, last 0, no latest
\* and a newly created task; stop() leaves no feed tracked, and changes
\* nothing when none was.
C11_StartStopIdempotent ==
    [][/\ ev'.kind = "start" =>
            \A f \in Feeds :
                IF updater[f].in
                THEN /\ updater'[f] = updater[f]
                     /\ proc'[Auto(f)] = proc[Auto(f)]
                     /\ waitq'[f] = waitq[f]
                ELSE /\ updater'[f].in
                     /\ updater'[f].last = 0
                     /\ updater'[f].latest = None
                     /\ updater'[f].lock \notin {proc[p].lock : p \in Procs}
                     /\ proc'[Auto(f)] =
                            [Rest EXCEPT !.pc = "created", !.op = "auto", !.feed = f]
       /\ ev'.kind = "stop" =>
            /\ \A f \in Feeds : ~updater'[f].in
            /\ (\A f \in Feeds : ~updater[f].in) =>
                   UNCHANGED <<updater, proc, waitq, old>>]_vars

\* start() was called with the feeds tracked, one of them holding an entry
\* and its task in the middle of a fetch.
C11_Witness ==
    /\ ev.kind = "start" /\ ev.at = "tracked"
    /\ \E f \in Feeds : updater[f].latest # None /\ proc[Auto(f)].pc = "fetch"

\* C12: a call of announce(feed, target) changes no feed's record and no
\* lock queue, starts no fetch and moves no other process; it sends nothing
\* when the feed is unknown, untracked or has no cached entry, and otherwise
\* sends one message made of the cached entry, to the target when one is
\* given and to the channels when none is.
C12_AnnounceReadsOnly ==
    [][ev'.kind \in {"announce", "mute"} =>
          LET p == ev'.p
              f == ev'.feed
              t == ev'.at
          IN /\ UNCHANGED <<updater, waitq, old>>
             /\ ~ev'.started
             /\ \A q \in Procs \ {p} : proc'[q] = proc[q]
             /\ IF f \in Feeds /\ updater[f].in /\ updater[f].latest # None
                THEN /\ proc'[p].pc = "notify"
                     /\ proc'[p].msg =
                           [kind       |-> IF t = NoTarget THEN "announce"
                                                           ELSE "privmsg",
                            target     |-> t,
                            feed_title |-> RSS_FEEDS[f].title,
                            title      |-> updater[f].latest.title,
                            url        |-> updater[f].latest.url,
                            time       |-> updater[f].latest.time]
                ELSE proc'[p] = Rest]_vars

\* announce was called with a target for a feed holding an entry, and the
\* message to that target is on its way.
C12_Witness ==
    /\ ev.kind = "announce" /\ ev.at \in Targets
    /\ proc[ev.p].pc = "notify" /\ proc[ev.p].msg.kind = "privmsg"

\* C13: every fetch that returns to a cycle, with an entry or without, sets
\* the feed's last to the time of its return; no other step of the program
\* changes the last of a record, so neither taking the lock nor calling
\* get_latest does, and last keeps its value while the fetch is in flight.
C13_LastSetOnCompletion ==
    [][/\ ev'.kind = "cycle" => updater'[ev'.feed].last = now'
       /\ ev'.started => updater' = updater
       /\ \A f \in Feeds :
             /\ updater[f].in /\ updater'[f].in
             /\ updater'[f].lock = updater[f].lock
             /\ updater'[f].last # updater[f].last
             => ev'.kind = "cycle" /\ ev'.feed = f]_vars

\* A failed fetch has just returned to a cycle of a feed whose last was set
\* earlier, while another process still waits for a fetch.
C13_Witness ==
    /\ Cycle /\ ev.new = None /\ ev.old # None
    /\ updater[ev.feed].last = now
    /\ \E p \in Procs : proc[p].pc = "fetch"

\* C14: a tracked feed has no latest entry exactly as long as no cycle has
\* succeeded for it since its start(), and no step that leaves the feed
\* tracked takes a latest entry away: it stays or is replaced by an entry.
C14_LatestNeverCleared ==
    [][\A f \in Feeds :
          /\ updater'[f].in => (updater'[f].latest = None <=> ~seen'[f])
          /\ updater[f].in /\ updater'[f].in /\ updater[f].latest # None
             => updater'[f].latest # None]_vars

\* start() was called again for a tracked feed that holds an entry and
\* whose last cycle failed; the entry is still there.
C14_Witness ==
    /\ ev.kind = "start" /\ ev.at = "tracked"
    /\ \E f \in Feeds : /\ updater[f].in /\ updater[f].latest # None
                         /\ cyc[f].failed

\* C15 as stated: a cycle that fetched an entry with the cached url leaves
\* the cached entry as it was, url, title and time.
C15_SameUrlKeepsEntry == SameUrl => updater[ev.feed].latest = ev.old

\* C15: a cycle that fetched an entry with the cached url leaves the url of
\* the cached entry as it was; its title and time are those just fetched.
C15_SameUrlKeepsUrl ==
    SameUrl => /\ updater[ev.feed].latest.url = ev.old.url
               /\ updater[ev.feed].latest.title = ev.new.title
               /\ updater[ev.feed].latest.time = ev.new.time

\* A cycle fetched the cached url under another title and time.
C15_Witness ==
    /\ SameUrl /\ ev.old.title # ev.new.title /\ ev.old.time # ev.new.time
    /\ updater[ev.feed].latest.url = ev.old.url

\* C17: after a successful cycle the cached entry is the entry that cycle
\* fetched, whatever its url; the message a cycle sends is made of the
\* entry that cycle fetched, and stays the same until it is delivered.
C17_LatestIsFetched ==
    [][/\ Succeeded' => updater'[ev'.feed].latest = ev'.new
       /\ Succeeded' /\ Notifying' =>
             proc'[ev'.p].msg =
                [kind       |-> "announce",
                 target     |-> NoTarget,
                 feed_title |-> RSS_FEEDS[ev'.feed].title,
                 title      |-> ev'.new.title,
                 url        |-> ev'.new.url,
                 time       |-> ev'.new.time]
       /\ \A p \in Procs :
             proc[p].pc = "notify" /\ proc'[p].pc = "notify"
             => proc'[p].msg = proc[p].msg]_vars

\* The polling task fetched a new url and is sending the message for it.
C17_Witness ==
    /\ NewUrl /\ Notifying /\ ev.p \in Tasks
    /\ proc[ev.p].msg.url = ev.new.url
    /\ updater[ev.feed].latest = ev.new

\* C19: a cycle that holds a feed's lock or waits for it, whether it was
\* started by update() or by the polling task, finds the feed tracked and
\* its lock to be the lock of the feed's record: the record it will write
\* has been neither removed nor replaced.
C19_RecordKeptForCycle ==
    \A p \in Procs :
        proc[p].op = "update" /\ proc[p].pc \in {"lock", "fetch", "notify"}
        => /\ updater[proc[p].feed].in
           /\ updater[proc[p].feed].lock = proc[p].lock

C20_LockReleased ==
    /\ [](\A f \in Feeds, n \in 1..MaxStarts :
             Cardinality({p \in Procs : Holds(proc, p, f, n)})
                + (IF OldHolds(f, n) THEN 1 ELSE 0) <= 1)
    /\ \A i \in 1..NumCallers :
          /\ proc[Call(i)].pc = "lock" ~> proc[Call(i)].pc = "fetch"
          /\ proc[Call(i)].pc \in {"fetch", "notify"} ~> proc[Call(i)].pc = "none"

\* A call of update() waits for the lock while the polling task, inside its
\* cycle, delivers a notification.
C20_Witness ==
    \E i \in 1..NumCallers, f \in Feeds :
        /\ proc[Call(i)].pc = "lock" /\ proc[Call(i)].feed = f
        /\ proc[Auto(f)].pc = "notify"
        /\ proc[Auto(f)].lock = proc[Call(i)].lock

\* C18: a step of a cycle, of a polling task or of announce() for one feed
\* leaves the record, the lock and the lock queue of every other feed and
\* the position of every process working on another feed as they were; and
\* while the fetches of the video feed fail or never return, the polling
\* task of the podcast feed gets its lock and completes each of its cycles
\* unless stop() is called first.
C18_FeedsIndependent ==
    /\ [][ev'.feed \in Feeds /\ ev'.kind \notin {"start", "stop"} =>
            \A g \in Feeds \ {ev'.feed} :
                /\ updater'[g] = updater[g]
                /\ waitq'[g] = waitq[g]
                /\ old'[g] = old[g]
                /\ \A p \in Procs : proc[p].feed = g => proc'[p] = proc[p]]_vars
    /\ proc[Auto("podcast")].pc \in {"lock", "fetch"}
          ~> \/ Cycle /\ ev.p = Auto("podcast")
             \/ ~updater["podcast"].in

\* The polling task of the podcast feed completes its second cycle while
\* the first fetch of the video feed has still not returned.
C18_Witness ==
    /\ Cycle /\ ev.p = Auto("podcast") /\ ev.old # None
    /\ proc[Auto("video")].pc = "fetch"
    /\ updater["video"].in /\ updater["video"].last = 0

====
